---- MODULE Spec2Model ----
(***************************************************************************)
(* A model of the mpu6000 register-level driver: the two RegAccess         *)
(* transports of bus.rs (SpiBus, I2cBus), the Device Control Surface of    *)
(* lib.rs (MPU6000) and the constants of registers.rs.                     *)
(*                                                                         *)
(* A call of a driver method is one action.  A method is an operator that  *)
(* threads a machine record m through the statements of its body and       *)
(* returns a result record; the primitives of the transport (chip-select,  *)
(* delay, send, exchange) append one event each to m.wire, so the order    *)
(* of everything a call did is kept in the state.  The k-th primitive of   *)
(* a call fails when k is in the call's fault plan F.                      *)
(***************************************************************************)
EXTENDS Integers, Sequences, FiniteSets, TLC

VARIABLES
    bus_kind,         \* which RegAccess implementation the handle owns: "spi" | "i2c"
    address,          \* I2cBus.address (0 on the SPI transport, which has none)
    overflow_checks,  \* the build: TRUE panics on arithmetic overflow, FALSE wraps
    regs,             \* the register file of the device behind the transport
    cs,               \* level of the chip-select line: "high" (released) | "low" (asserted)
    dlpf_enabled,     \* MPU6000.dlpf_enabled
    whoami,           \* MPU6000.whoami
    halted,           \* TRUE once a call has panicked
    last_dlpf,        \* history: argument of the most recent set_dlpf call, -1 if none
    last_field,       \* history: per configuration field, the value it was last given
    exclusive,        \* TRUE: a set_register runs to completion before the next starts
    callers,          \* per caller sharing the handle: where it is in its set_register
    call              \* the last call: its name, arguments, result, and what it did

vars == <<bus_kind, address, overflow_checks, regs, cs, dlpf_enabled, whoami,
          halted, last_dlpf, last_field, exclusive, callers, call>>

(***************************************************************************)
(* Bounds of the model.                                                    *)
(***************************************************************************)
\* at most this many primitives of one call fail
MaxFaults == 1
\* longest burst read a direct reads call asks for
MaxBurst == 2
\* sample rates 0..MaxRate are tried (base is 1000 or 8000)
MaxRate == 8001

(***************************************************************************)
(* registers.rs                                                            *)
(***************************************************************************)
Register ==
    [ProductId |-> 12, SampleRateDivider |-> 25, Configuration |-> 26,
     GyroConfig |-> 27, AccelerometerConfig |-> 28, FifoEnable |-> 35,
     IntPinConfig |-> 55, InterruptEnable |-> 56,
     AccelerometerXHigh |-> 59, AccelerometerXLow |-> 60,
     AccelerometerYHigh |-> 61, AccelerometerYLow |-> 62,
     AccelerometerZHigh |-> 63, AccelerometerZLow |-> 64,
     TemperatureHigh |-> 65, TemperatureLow |-> 66,
     GyroXHigh |-> 67, GyroXLow |-> 68, GyroYHigh |-> 69, GyroYLow |-> 70,
     GyroZHigh |-> 71, GyroZLow |-> 72,
     SignalPathReset |-> 104, UserControl |-> 106,
     PowerManagement1 |-> 107, PowerManagement2 |-> 108,
     FifoCountHigh |-> 114, FifoCountLow |-> 115, FifoReadWrite |-> 116,
     WhoAmI |-> 117]

RegisterAddrs == {Register[k] : k \in DOMAIN Register}

PowerManagement1 == [DeviceReset |-> 128]

SignalPathReset == [GyroReset |-> 4, AccelerometerReset |-> 2, TemperatureReset |-> 1]

AccelerometerRange == [G2 |-> 0, G4 |-> 1, G8 |-> 2, G16 |-> 3]

GyroRange == [DPS250 |-> 0, DPS500 |-> 1, DPS1000 |-> 2, DPS2000 |-> 3]

\* the discriminants of enum ProductId, implicit, in declaration order
ProductId ==
    [Unknown |-> 0, MPU6000ES_REV_C4 |-> 1, MPU6000ES_REV_C5 |-> 2,
     MPU6000ES_REV_D6 |-> 3, MPU6000ES_REV_D7 |-> 4, MPU6000ES_REV_D8 |-> 5,
     MPU6000_REV_C4 |-> 6, MPU6000_REV_C5 |-> 7, MPU6000_REV_D6 |-> 8,
     MPU6000_REV_D7 |-> 9, MPU6000_REV_D8 |-> 10, MPU6000_REV_D9 |-> 11,
     MPU6000_REV_D10 |-> 12]

\* impl From<u8> for ProductId
ProductId_from(value) ==
    CASE value = 20 -> ProductId.MPU6000_REV_C4
      [] value = 21 -> ProductId.MPU6000ES_REV_C5
      [] value = 22 -> ProductId.MPU6000ES_REV_D6
      [] value = 23 -> ProductId.MPU6000ES_REV_D7
      [] value = 24 -> ProductId.MPU6000ES_REV_D8
      [] value = 84 -> ProductId.MPU6000_REV_C4
      [] value = 85 -> ProductId.MPU6000_REV_C5
      [] value = 86 -> ProductId.MPU6000_REV_D6
      [] value = 87 -> ProductId.MPU6000_REV_D7
      [] value = 88 -> ProductId.MPU6000_REV_D8
      [] value = 89 -> ProductId.MPU6000_REV_D9
      [] value = 90 -> ProductId.MPU6000_REV_D10
      [] OTHER -> ProductId.Unknown

(***************************************************************************)
(* Fixed-width unsigned arithmetic, as rustc compiles it.                  *)
(***************************************************************************)
Byte == 0..255

Bit(x, i) == (x \div (2 ^ i)) % 2

\* a & b on w-bit values
BitAnd(a, b, w) ==
    LET f[i \in 0..w] ==
            IF i = w THEN 0 ELSE Bit(a, i) * Bit(b, i) * (2 ^ i) + f[i + 1]
    IN f[0]

\* a | b on w-bit values
BitOr(a, b, w) == a + b - BitAnd(a, b, w)

\* !a on u8
Not8(a) == 255 - a

\* a << n on a w-bit value, the shift amount already in range: high bits fall off
Shl(a, n, w) == (a * (2 ^ n)) % (2 ^ w)

\* whether `x << n` on a w-bit value overflows (n >= w): a panic with overflow
\* checks, and a shift by n mod w without
ShlOverflows(n, w) == n >= w

\* the amount a w-bit value is shifted by when the build does not check
ShlAmount(n, w) == n % w

(***************************************************************************)
(* The machine a call runs on, and the results of calls.                   *)
(***************************************************************************)
Ev(op, data, ok) == [op |-> op, data |-> data, ok |-> ok]

Txn(kind, reg, value, ok) == [kind |-> kind, reg |-> reg, value |-> value, ok |-> ok]

\* the machine at the start of a call: nothing done yet
Machine ==
    [regs |-> regs, cs |-> cs, ptr |-> 0, wire |-> <<>>, txn |-> <<>>,
     dlpf_enabled |-> dlpf_enabled, whoami |-> whoami]

Result(tag, val, data, err, m) ==
    [tag |-> tag, val |-> val, data |-> data, err |-> err, m |-> m]

Ok(m) == Result("Ok", 0, <<>>, "", m)

OkVal(v, m) == Result("Ok", v, <<>>, "", m)

OkData(d, m) == Result("Ok", 0, d, "", m)

Err(e, m) == Result("Err", 0, <<>>, e, m)

Panic(m) == Result("Panic", 0, <<>>, "", m)

\* the next primitive of the call fails under fault plan F
Fails(m, F) == (Len(m.wire) + 1) \in F

(***************************************************************************)
(* The device behind the transport: a register file that stores the value  *)
(* byte of a write under the register address and returns the stored byte  *)
(* on a read of that register.  Bit 7 of the address byte is the read      *)
(* flag; the low 7 bits select the register.                               *)
(***************************************************************************)
StubStore(rg, a, v) == IF a \in DOMAIN rg THEN [rg EXCEPT ![a] = v] ELSE rg

StubLoad(rg, a) == IF a \in DOMAIN rg THEN rg[a] ELSE 0

\* n consecutive registers from a on (the chip's auto-increment)
StubBurst(rg, a, n) == [i \in 1..n |-> StubLoad(rg, a + i - 1)]

(***************************************************************************)
(* Transport Capability: the primitives the bus adapters consume.  Each    *)
(* appends one event to m.wire.                                            *)
(***************************************************************************)
\* OutputPin::set_low
set_low(m, F) ==
    LET ok == ~Fails(m, F)
    IN [ok |-> ok,
        m |-> [m EXCEPT !.wire = Append(@, Ev("set_low", <<>>, ok)),
                        !.cs = IF ok THEN "low" ELSE @]]

\* OutputPin::set_high
set_high(m, F) ==
    LET ok == ~Fails(m, F)
    IN [ok |-> ok,
        m |-> [m EXCEPT !.wire = Append(@, Ev("set_high", <<>>, ok)),
                        !.cs = IF ok THEN "high" ELSE @]]

\* DelayUs::delay_us
delay_us(m, us) == [m EXCEPT !.wire = Append(@, Ev("delay_us", <<us>>, TRUE))]

\* DelayMs::delay_ms
delay_ms(m, ms) == [m EXCEPT !.wire = Append(@, Ev("delay_ms", <<ms>>, TRUE))]

\* spi::Write::write: a selected device takes <<address, value>> as a register
\* write and <<address | 0x80>> as the start of a read
spi_write(m, F, bytes) ==
    LET ok == ~Fails(m, F)
        heard == ok /\ m.cs = "low"
        m1 == [m EXCEPT !.wire = Append(@, Ev("spi_write", bytes, ok))]
    IN [ok |-> ok,
        m |-> IF ~heard THEN m1
              ELSE IF bytes[1] >= 128 THEN [m1 EXCEPT !.ptr = bytes[1] - 128]
              ELSE IF Len(bytes) = 2
                   THEN [m1 EXCEPT !.regs = StubStore(@, bytes[1], bytes[2])]
              ELSE m1]

\* spi::Transfer::transfer of an n-byte buffer
spi_transfer(m, F, n) ==
    LET ok == ~Fails(m, F)
        data == IF ok THEN StubBurst(m.regs, m.ptr, n) ELSE [i \in 1..n |-> 0]
    IN [ok |-> ok, data |-> data,
        m |-> [m EXCEPT !.wire = Append(@, Ev("spi_transfer", data, ok))]]

\* i2c::Write::write
i2c_write(m, F, addr, bytes) ==
    LET ok == ~Fails(m, F)
        m1 == [m EXCEPT !.wire = Append(@, Ev("i2c_write", <<addr>> \o bytes, ok))]
    IN [ok |-> ok,
        m |-> IF ok /\ Len(bytes) = 2 /\ bytes[1] < 128
              THEN [m1 EXCEPT !.regs = StubStore(@, bytes[1], bytes[2])]
              ELSE m1]

\* i2c::WriteRead::write_read into an n-byte buffer
i2c_write_read(m, F, addr, bytes, n) ==
    LET ok == ~Fails(m, F)
        data == IF ok THEN StubBurst(m.regs, bytes[1] % 128, n) ELSE [i \in 1..n |-> 0]
    IN [ok |-> ok, data |-> data,
        m |-> [m EXCEPT !.wire = Append(@, Ev("i2c_write_read", <<addr>> \o bytes, ok))]]

(***************************************************************************)
(* Sequencing.  Then(v, K) is K applied to the value of v: `let x = v;`    *)
(* followed by the rest of the body, with v evaluated once.                *)
(***************************************************************************)
Then(v, K(_)) == CHOOSE y \in {K(x) : x \in {v}} : TRUE

(***************************************************************************)
(* bus.rs: SpiBus                                                          *)
(***************************************************************************)
SpiBus_chip_select(m, F, select) ==
    Then(IF select THEN set_low(m, F) ELSE set_high(m, F), LAMBDA r :
         IF r.ok THEN Ok(r.m) ELSE Err("OutputPinError", r.m))

SpiBus_write(m, F, reg, value) ==
    Then(SpiBus_chip_select(m, F, TRUE), LAMBDA a :
      IF a.tag # "Ok" THEN a
      ELSE Then(spi_write(delay_us(a.m, 1), F, <<reg, value>>), LAMBDA result :
           Then(SpiBus_chip_select(result.m, F, FALSE), LAMBDA d :
             IF d.tag # "Ok" THEN d
             ELSE IF result.ok THEN Ok(delay_us(d.m, 1))
             ELSE Err("WriteError", delay_us(d.m, 1)))))

\* SpiBus_reads sending the register address without the read flag
SpiBus_reads_no_read_flag(m, F, reg, n) ==
    Then(SpiBus_chip_select(m, F, TRUE), LAMBDA a :
      IF a.tag # "Ok" THEN a
      ELSE Then(spi_write(delay_us(a.m, 1), F, <<reg>>), LAMBDA c :
        IF ~c.ok THEN Err("WriteError", c.m)
        ELSE Then(spi_transfer(c.m, F, n), LAMBDA t :
          IF ~t.ok THEN Err("TransferError", t.m)
          ELSE Then(SpiBus_chip_select(t.m, F, FALSE), LAMBDA d :
            IF d.tag # "Ok" THEN d
            ELSE OkData(t.data, delay_us(d.m, 1))))))

SpiBus_reads(m, F, reg, n) ==
    Then(SpiBus_chip_select(m, F, TRUE), LAMBDA a :
      IF a.tag # "Ok" THEN a
      ELSE Then(spi_write(delay_us(a.m, 1), F, <<BitOr(reg, 128, 8)>>), LAMBDA c :
        IF ~c.ok THEN Err("WriteError", c.m)
        ELSE Then(spi_transfer(c.m, F, n), LAMBDA t :
          IF ~t.ok THEN Err("TransferError", t.m)
          ELSE Then(SpiBus_chip_select(t.m, F, FALSE), LAMBDA d :
            IF d.tag # "Ok" THEN d
            ELSE OkData(t.data, delay_us(d.m, 1))))))

SpiBus_read(m, F, reg) ==
    Then(SpiBus_reads(m, F, reg, 1), LAMBDA r :
         IF r.tag # "Ok" THEN r ELSE OkVal(r.data[1], r.m))

(***************************************************************************)
(* bus.rs: I2cBus                                                          *)
(***************************************************************************)
\* I2cBus_write sending to the chip's default address, not to self.address
I2cBus_write_default_address(m, F, reg, value) ==
    Then(i2c_write(m, F, 104, <<reg, value>>), LAMBDA r :
         IF r.ok THEN Ok(r.m) ELSE Err("I2cError", r.m))

I2cBus_write(m, F, reg, value) ==
    Then(i2c_write(m, F, address, <<reg, value>>), LAMBDA r :
         IF r.ok THEN Ok(r.m) ELSE Err("I2cError", r.m))

I2cBus_reads(m, F, reg, n) ==
    Then(i2c_write_read(m, F, address, <<BitOr(reg, 128, 8)>>, n), LAMBDA r :
         IF r.ok THEN OkData(r.data, r.m) ELSE Err("I2cError", r.m))

I2cBus_read(m, F, reg) ==
    Then(I2cBus_reads(m, F, reg, 1), LAMBDA r :
         IF r.tag # "Ok" THEN r ELSE OkVal(r.data[1], r.m))

(***************************************************************************)
(* bus.rs: trait RegAccess, dispatched on the transport the handle owns.   *)
(* Each call is one register transaction, recorded in m.txn.               *)
(***************************************************************************)
RegAccess_write(m, F, reg, value) ==
    Then(IF bus_kind = "spi" THEN SpiBus_write(m, F, reg, value)
         ELSE I2cBus_write(m, F, reg, value), LAMBDA r :
         [r EXCEPT !.m.txn = Append(@, Txn("write", reg, value, r.tag = "Ok"))])

RegAccess_read(m, F, reg) ==
    Then(IF bus_kind = "spi" THEN SpiBus_read(m, F, reg)
         ELSE I2cBus_read(m, F, reg), LAMBDA r :
         [r EXCEPT !.m.txn = Append(@, Txn("read", reg, r.val, r.tag = "Ok"))])

RegAccess_reads(m, F, reg, n) ==
    Then(IF bus_kind = "spi" THEN SpiBus_reads(m, F, reg, n)
         ELSE I2cBus_reads(m, F, reg, n), LAMBDA r :
         [r EXCEPT !.m.txn = Append(@, Txn("reads", reg, n, r.tag = "Ok"))])

(***************************************************************************)
(* lib.rs: impl MPU6000                                                    *)
(***************************************************************************)
IntPinConfig == [IntReadClear |-> 4]

Interrupt == [DataReady |-> 0]

ClockSource ==
    [Internal |-> 0, PLLGyroX |-> 1, PLLGyroY |-> 2, PLLGyroZ |-> 3,
     PLLExternal32_768KHz |-> 4, PLLExternal19_2MHz |-> 5, Stop |-> 7]

\* struct FifoEnable: every value of its eight flags
FifoEnable ==
    [temperature : BOOLEAN, x_g_force : BOOLEAN, y_g_force : BOOLEAN,
     z_g_force : BOOLEAN, acceleration : BOOLEAN, slave2 : BOOLEAN,
     slave1 : BOOLEAN, slave0 : BOOLEAN]

\* `b as u8`
BoolAsU8(b) == IF b THEN 1 ELSE 0

\* Into<u8> with the flags in the opposite bit order
FifoEnable_into_reversed(self) ==
    BitOr(BitOr(BitOr(BitOr(BitOr(BitOr(BitOr(
        Shl(BoolAsU8(self.temperature), 0, 8),
        Shl(BoolAsU8(self.x_g_force), 1, 8), 8),
        Shl(BoolAsU8(self.y_g_force), 2, 8), 8),
        Shl(BoolAsU8(self.z_g_force), 3, 8), 8),
        Shl(BoolAsU8(self.acceleration), 4, 8), 8),
        Shl(BoolAsU8(self.slave2), 5, 8), 8),
        Shl(BoolAsU8(self.slave1), 6, 8), 8),
        Shl(BoolAsU8(self.slave0), 7, 8), 8)

\* impl Into<u8> for FifoEnable: << binds tighter than |, and | groups left
FifoEnable_into(self) ==
    BitOr(BitOr(BitOr(BitOr(BitOr(BitOr(BitOr(
        Shl(BoolAsU8(self.temperature), 7, 8),
        Shl(BoolAsU8(self.x_g_force), 6, 8), 8),
        Shl(BoolAsU8(self.y_g_force), 5, 8), 8),
        Shl(BoolAsU8(self.z_g_force), 4, 8), 8),
        Shl(BoolAsU8(self.acceleration), 3, 8), 8),
        Shl(BoolAsU8(self.slave2), 2, 8), 8),
        Shl(BoolAsU8(self.slave1), 1, 8), 8),
        Shl(BoolAsU8(self.slave0), 0, 8), 8)

\* set_register reading the register a second time before it writes
set_register_reads_twice(m, F, reg, offset, len, bits) ==
    Then(RegAccess_read(m, F, reg), LAMBDA r0 :
      IF r0.tag # "Ok" THEN r0
      ELSE Then(RegAccess_read(r0.m, F, reg), LAMBDA r :
        IF r.tag # "Ok" THEN r
        ELSE Then(Shl(1, ShlAmount(len, 8), 8) - 1, LAMBDA mask :
             Then(BitAnd(r.val, Not8(Shl(mask, ShlAmount(offset, 8), 8)), 8),
                  LAMBDA cleared :
               RegAccess_write(r.m, F, reg,
                   BitOr(cleared,
                         Shl(BitAnd(bits, mask, 8), ShlAmount(offset, 8), 8), 8))))))

\* the statements of set_register after its read, writing `bits` over the whole
\* register instead of over the field
set_register_overwrite(m, F, reg, offset, len, bits, read) ==
    RegAccess_write(m, F, reg, Shl(bits, ShlAmount(offset, 8), 8))

\* the statements of set_register after its read returned `read`: the mask, the
\* edit of the byte and the write
set_register_modify_write(m, F, reg, offset, len, bits, read) ==
    IF overflow_checks /\ (ShlOverflows(len, 8) \/ ShlOverflows(offset, 8))
    THEN Panic(m)
    ELSE Then(Shl(1, ShlAmount(len, 8), 8) - 1, LAMBDA mask :
         Then(BitAnd(read, Not8(Shl(mask, ShlAmount(offset, 8), 8)), 8),
              LAMBDA cleared :
         Then(BitOr(cleared, Shl(BitAnd(bits, mask, 8), ShlAmount(offset, 8), 8), 8),
              LAMBDA value :
           RegAccess_write(m, F, reg, value))))

set_register(m, F, reg, offset, len, bits) ==
    Then(RegAccess_read(m, F, reg), LAMBDA r :
      IF r.tag # "Ok" THEN r
      ELSE set_register_modify_write(r.m, F, reg, offset, len, bits, r.val))

set_slave_address(m, addr) == Ok([m EXCEPT !.whoami = addr])

MPU6000_whoami(m, F) == RegAccess_read(m, F, Register.WhoAmI)

product_id(m, F) == RegAccess_read(m, F, Register.ProductId)

\* verify going on to the ProductId read after a failed WhoAmI read
verify_reads_on(m, F) ==
    Then(MPU6000_whoami(m, F), LAMBDA a :
      Then(product_id(a.m, F), LAMBDA b :
        IF b.tag # "Ok" THEN b
        ELSE IF a.tag # "Ok" THEN Err(a.err, b.m)
        ELSE OkVal(IF a.val = m.whoami /\ b.val # ProductId.Unknown THEN 1 ELSE 0,
                   b.m)))

\* a bool result is val 1 (true) or 0 (false); && does not evaluate its right
\* side when the left is false
verify(m, F) ==
    Then(MPU6000_whoami(m, F), LAMBDA a :
      IF a.tag # "Ok" THEN a
      ELSE IF a.val # m.whoami THEN OkVal(0, a.m)
      ELSE Then(product_id(a.m, F), LAMBDA b :
        IF b.tag # "Ok" THEN b
        ELSE OkVal(IF b.val # ProductId.Unknown THEN 1 ELSE 0, b.m)))

\* reset without the settle delay between its two writes
reset_no_settle(m, F) ==
    Then(RegAccess_write(m, F, Register.PowerManagement1,
                         PowerManagement1.DeviceReset), LAMBDA a :
      IF a.tag # "Ok" THEN a
      ELSE Then(RegAccess_write(a.m, F, Register.SignalPathReset, 7), LAMBDA c :
        IF c.tag # "Ok" THEN c
        ELSE Ok(delay_ms(delay_ms(c.m, 150), 150))))

reset(m, F) ==
    Then(PowerManagement1.DeviceReset, LAMBDA reset_bit :
    Then(RegAccess_write(m, F, Register.PowerManagement1, reset_bit), LAMBDA a :
      IF a.tag # "Ok" THEN a
      ELSE Then(delay_ms(a.m, 150), LAMBDA b :
           Then(BitOr(BitOr(SignalPathReset.TemperatureReset,
                            SignalPathReset.AccelerometerReset, 8),
                      SignalPathReset.GyroReset, 8), LAMBDA value :
           Then(RegAccess_write(b, F, Register.SignalPathReset, value), LAMBDA c :
             IF c.tag # "Ok" THEN c
             ELSE Ok(delay_ms(c.m, 150)))))))

set_sleep(m, F, enable) ==
    set_register(m, F, Register.PowerManagement1, 6, 1, IF enable THEN 1 ELSE 0)

set_clock_source(m, F, source) ==
    set_register(m, F, Register.PowerManagement1, 0, 3, source)

\* set_dlpf taking the filter for enabled at value 0 too
set_dlpf_zero_enabled(m, F, value) ==
    Then([m EXCEPT !.dlpf_enabled = (value < 7)], LAMBDA m1 :
         set_register(m1, F, Register.Configuration, 0, 3, value))

set_dlpf(m, F, value) ==
    Then([m EXCEPT !.dlpf_enabled = (0 < value /\ value < 7)], LAMBDA m1 :
         set_register(m1, F, Register.Configuration, 0, 3, value))

\* set_i2c_disable writing the bit without the read-modify-write
set_i2c_disable_whole_byte(m, F, disable) ==
    RegAccess_write(m, F, Register.UserControl, Shl(IF disable THEN 1 ELSE 0, 2, 8))

set_i2c_disable(m, F, disable) ==
    set_register(m, F, Register.UserControl, 2, 1, IF disable THEN 1 ELSE 0)

\* set_sample_rate with the two bases the wrong way round
set_sample_rate_bases_swapped(m, F, rate) ==
    Then(IF m.dlpf_enabled THEN 8000 ELSE 1000, LAMBDA base :
      IF rate = 0 THEN Panic(m)
      ELSE IF base \div rate = 0 /\ overflow_checks THEN Panic(m)
      ELSE Then((base \div rate - 1) % 65536, LAMBDA divider :
             RegAccess_write(m, F, Register.SampleRateDivider, divider % 256)))

\* u16 arithmetic: a division by zero panics in every build; 0 - 1 panics with
\* overflow checks and wraps to 65535 without; `as u8` keeps the low 8 bits
set_sample_rate(m, F, rate) ==
    Then(IF ~m.dlpf_enabled THEN 8000 ELSE 1000, LAMBDA base :
      IF rate = 0 THEN Panic(m)
      ELSE IF base \div rate = 0 /\ overflow_checks THEN Panic(m)
      ELSE Then((base \div rate - 1) % 65536, LAMBDA divider :
             RegAccess_write(m, F, Register.SampleRateDivider, divider % 256)))

set_int_pin_config(m, F, pin_config, enable) ==
    set_register(m, F, Register.IntPinConfig, pin_config, 1, IF enable THEN 1 ELSE 0)

set_interrupt_enable(m, F, interrupt, enable) ==
    set_register(m, F, Register.InterruptEnable, interrupt, 1, IF enable THEN 1 ELSE 0)

enable_fifo(m, F, fifo_enable) ==
    Then(FifoEnable_into(fifo_enable), LAMBDA value :
         RegAccess_write(m, F, Register.FifoEnable, value))

\* enable_fifo_buffer with its expression read as `(value | 1) << 6`
enable_fifo_buffer_or_then_shift(m, F) ==
    Then(RegAccess_read(m, F, Register.UserControl), LAMBDA value :
      IF value.tag # "Ok" THEN value
      ELSE RegAccess_write(value.m, F, Register.UserControl,
                           Shl(BitOr(value.val, 1, 8), 6, 8)))

\* `value | 1 << 6`: << binds tighter than |
enable_fifo_buffer(m, F) ==
    Then(RegAccess_read(m, F, Register.UserControl), LAMBDA value :
      IF value.tag # "Ok" THEN value
      ELSE RegAccess_write(value.m, F, Register.UserControl,
                           BitOr(value.val, Shl(1, 6, 8), 8)))

\* get_fifo_counter combining the two bytes low byte first
get_fifo_counter_little_endian(m, F) ==
    Then(RegAccess_read(m, F, Register.FifoCountHigh), LAMBDA high :
      IF high.tag # "Ok" THEN high
      ELSE Then(RegAccess_read(high.m, F, Register.FifoCountLow), LAMBDA low :
        IF low.tag # "Ok" THEN low
        ELSE OkVal(BitOr(Shl(low.val, 8, 16), high.val, 16), low.m)))

get_fifo_counter(m, F) ==
    Then(RegAccess_read(m, F, Register.FifoCountHigh), LAMBDA high :
      IF high.tag # "Ok" THEN high
      ELSE Then(RegAccess_read(high.m, F, Register.FifoCountLow), LAMBDA low :
        IF low.tag # "Ok" THEN low
        ELSE OkVal(BitOr(Shl(high.val, 8, 16), low.val, 16), low.m)))

\* set_gyro_range putting the selector in bits 7..6
set_gyro_range_top_bits(m, F, range) ==
    RegAccess_write(m, F, Register.GyroConfig, Shl(range, 6, 8))

set_gyro_range(m, F, range) ==
    RegAccess_write(m, F, Register.GyroConfig, Shl(range, 3, 8))

\* the bytes handed to Acceleration::from: `buffer[..].into()`
read_acceleration(m, F) ==
    Then(RegAccess_reads(m, F, Register.AccelerometerXHigh, 6), LAMBDA r :
         IF r.tag # "Ok" THEN r ELSE OkData(<<r.data>>, r.m))

\* the bytes handed to Gyro::from
read_gyro(m, F) ==
    Then(RegAccess_reads(m, F, Register.GyroXHigh, 6), LAMBDA r :
         IF r.tag # "Ok" THEN r ELSE OkData(<<r.data>>, r.m))

\* the bytes handed to Temperature::from
read_temperature(m, F) ==
    Then(RegAccess_reads(m, F, Register.AccelerometerXHigh, 2), LAMBDA r :
         IF r.tag # "Ok" THEN r ELSE OkData(<<r.data>>, r.m))

\* the bytes handed to Acceleration::from, Temperature::from and Gyro::from:
\* buffer[..6], buffer[6..8], buffer[8..]
read_all(m, F) ==
    Then(RegAccess_reads(m, F, Register.AccelerometerXHigh, 14), LAMBDA r :
         IF r.tag # "Ok" THEN r
         ELSE OkData(<<SubSeq(r.data, 1, 6), SubSeq(r.data, 7, 8),
                       SubSeq(r.data, 9, 14)>>, r.m))

set_accelerometer_range(m, F, range) ==
    RegAccess_write(m, F, Register.AccelerometerConfig, Shl(range, 3, 8))

(***************************************************************************)
(* Calls.  A call runs a whole method on the machine as it stands and      *)
(* commits what the method left behind.  A panic halts the program.        *)
(***************************************************************************)
\* the primitives of a run that can fail: all but the delays
Fallible(wire) == {i \in 1..Len(wire) : wire[i].op \notin {"delay_us", "delay_ms"}}

\* the fault plans of a call, given the wire of its fault-free run: up to
\* MaxFaults of its primitives fail
FaultPlans(wire) == {F \in SUBSET Fallible(wire) : Cardinality(F) <= MaxFaults}

\* every way the primitives of a run can fail
AllFaultPlans(wire) == SUBSET Fallible(wire)

NoCall ==
    [op |-> "none", args |-> <<>>, tag |-> "Ok", val |-> 0, data |-> <<>>,
     err |-> "", wire |-> <<>>, txn |-> <<>>]

\* the configuration fields of the chip the driver edits, by the operation that
\* owns the field
ConfigFields ==
    [set_sleep            |-> [reg |-> Register.PowerManagement1, offset |-> 6, len |-> 1],
     set_clock_source     |-> [reg |-> Register.PowerManagement1, offset |-> 0, len |-> 3],
     set_dlpf             |-> [reg |-> Register.Configuration,    offset |-> 0, len |-> 3],
     set_i2c_disable      |-> [reg |-> Register.UserControl,      offset |-> 2, len |-> 1],
     enable_fifo_buffer   |-> [reg |-> Register.UserControl,      offset |-> 6, len |-> 1],
     set_interrupt_enable |-> [reg |-> Register.InterruptEnable,  offset |-> 0, len |-> 1],
     set_int_pin_config   |-> [reg |-> Register.IntPinConfig,     offset |-> 4, len |-> 1]]

\* the value a register file holds in the field of operation op
FieldValue(rg, op) ==
    (rg[ConfigFields[op].reg] \div (2 ^ ConfigFields[op].offset))
        % (2 ^ ConfigFields[op].len)

\* the value a call of operation op gives its field
FieldGiven(op, args) ==
    CASE op = "enable_fifo_buffer" -> 1
      [] op \in {"set_interrupt_enable", "set_int_pin_config"} -> args[2]
      [] OTHER -> args[1]

\* what a call leaves behind, whoever made it
Effects(op, args, res) ==
    /\ ~halted
    /\ \E r \in {res} :
         /\ call' = [op |-> op, args |-> args, tag |-> r.tag, val |-> r.val,
                     data |-> r.data, err |-> r.err, wire |-> r.m.wire,
                     txn |-> r.m.txn]
         /\ regs' = r.m.regs
         /\ cs' = r.m.cs
         /\ dlpf_enabled' = r.m.dlpf_enabled
         /\ whoami' = r.m.whoami
         /\ halted' = (r.tag = "Panic")
    /\ last_field' = IF op \in DOMAIN ConfigFields
                     THEN [last_field EXCEPT ![op] = FieldGiven(op, args)]
                     ELSE last_field
    /\ UNCHANGED <<bus_kind, address, overflow_checks, exclusive>>

\* a call by the owner of the handle
Commit(op, args, res) ==
    /\ Effects(op, args, res)
    /\ UNCHANGED callers

Call_write(reg, value, F) ==
    /\ Commit("write", <<reg, value>>, RegAccess_write(Machine, F, reg, value))
    /\ UNCHANGED last_dlpf

Call_read(reg, F) ==
    /\ Commit("read", <<reg>>, RegAccess_read(Machine, F, reg))
    /\ UNCHANGED last_dlpf

Call_reads(reg, n, F) ==
    /\ Commit("reads", <<reg, n>>, RegAccess_reads(Machine, F, reg, n))
    /\ UNCHANGED last_dlpf

Call_set_register(reg, offset, len, bits, F) ==
    /\ Commit("set_register", <<reg, offset, len, bits>>,
              set_register(Machine, F, reg, offset, len, bits))
    /\ UNCHANGED last_dlpf

Call_set_slave_address(addr) ==
    /\ Commit("set_slave_address", <<addr>>, set_slave_address(Machine, addr))
    /\ UNCHANGED last_dlpf

Call_verify(F) ==
    /\ Commit("verify", <<>>, verify(Machine, F))
    /\ UNCHANGED last_dlpf

Call_reset(F) ==
    /\ Commit("reset", <<>>, reset(Machine, F))
    /\ UNCHANGED last_dlpf

Call_set_sleep(enable, F) ==
    /\ Commit("set_sleep", <<IF enable THEN 1 ELSE 0>>, set_sleep(Machine, F, enable))
    /\ UNCHANGED last_dlpf

Call_set_clock_source(source, F) ==
    /\ Commit("set_clock_source", <<source>>, set_clock_source(Machine, F, source))
    /\ UNCHANGED last_dlpf

Call_set_i2c_disable(disable, F) ==
    /\ Commit("set_i2c_disable", <<IF disable THEN 1 ELSE 0>>,
              set_i2c_disable(Machine, F, disable))
    /\ UNCHANGED last_dlpf

Call_set_int_pin_config(pin_config, enable, F) ==
    /\ Commit("set_int_pin_config", <<pin_config, IF enable THEN 1 ELSE 0>>,
              set_int_pin_config(Machine, F, pin_config, enable))
    /\ UNCHANGED last_dlpf

Call_set_interrupt_enable(interrupt, enable, F) ==
    /\ Commit("set_interrupt_enable", <<interrupt, IF enable THEN 1 ELSE 0>>,
              set_interrupt_enable(Machine, F, interrupt, enable))
    /\ UNCHANGED last_dlpf

Call_set_dlpf(value, F) ==
    /\ Commit("set_dlpf", <<value>>, set_dlpf(Machine, F, value))
    /\ last_dlpf' = value

Call_set_sample_rate(rate, F) ==
    /\ Commit("set_sample_rate", <<rate>>, set_sample_rate(Machine, F, rate))
    /\ UNCHANGED last_dlpf

Call_enable_fifo(fifo_enable, F) ==
    /\ Commit("enable_fifo", <<fifo_enable>>, enable_fifo(Machine, F, fifo_enable))
    /\ UNCHANGED last_dlpf

Call_enable_fifo_buffer(F) ==
    /\ Commit("enable_fifo_buffer", <<>>, enable_fifo_buffer(Machine, F))
    /\ UNCHANGED last_dlpf

Call_get_fifo_counter(F) ==
    /\ Commit("get_fifo_counter", <<>>, get_fifo_counter(Machine, F))
    /\ UNCHANGED last_dlpf

Call_set_gyro_range(range, F) ==
    /\ Commit("set_gyro_range", <<range>>, set_gyro_range(Machine, F, range))
    /\ UNCHANGED last_dlpf

Call_set_accelerometer_range(range, F) ==
    /\ Commit("set_accelerometer_range", <<range>>,
              set_accelerometer_range(Machine, F, range))
    /\ UNCHANGED last_dlpf

Call_read_acceleration(F) ==
    /\ Commit("read_acceleration", <<>>, read_acceleration(Machine, F))
    /\ UNCHANGED last_dlpf

Call_read_gyro(F) ==
    /\ Commit("read_gyro", <<>>, read_gyro(Machine, F))
    /\ UNCHANGED last_dlpf

Call_read_temperature(F) ==
    /\ Commit("read_temperature", <<>>, read_temperature(Machine, F))
    /\ UNCHANGED last_dlpf

Call_read_all(F) ==
    /\ Commit("read_all", <<>>, read_all(Machine, F))
    /\ UNCHANGED last_dlpf

(***************************************************************************)
(* Callers sharing the handle.  A caller runs set_sleep or                 *)
(* set_clock_source, that is set_register on its field of PowerManagement1;*)
(* each of the two bus transactions of set_register is one step, and the   *)
(* steps of the callers interleave unless the handle is owned exclusively. *)
(***************************************************************************)
\* `let mut value = self.bus.read(reg)?;` of caller c's set_register
Caller_read(c, bits) ==
    /\ callers[c].pc = "idle"
    /\ exclusive => \A d \in DOMAIN callers : callers[d].pc # "read"
    /\ \E r \in {RegAccess_read(Machine, {}, ConfigFields[c].reg)} :
          /\ Effects("set_register.read", <<c, bits>>, r)
          /\ callers' = [callers EXCEPT ![c] =
                            [pc |-> IF r.tag = "Ok" THEN "read" ELSE "done",
                             bits |-> bits, read |-> r.val]]
    /\ UNCHANGED last_dlpf

\* the rest of caller c's set_register, on the byte it read
Caller_write(c) ==
    /\ callers[c].pc = "read"
    /\ Effects("set_register.write", <<c, callers[c].bits>>,
               set_register_modify_write(Machine, {}, ConfigFields[c].reg,
                   ConfigFields[c].offset, ConfigFields[c].len,
                   callers[c].bits, callers[c].read))
    /\ callers' = [callers EXCEPT ![c].pc = "done"]
    /\ UNCHANGED last_dlpf

(***************************************************************************)
(* The state after construction: SpiBus::new or I2cBus::i2c, then          *)
(* MPU6000::new.  The device's registers hold what the device was left     *)
(* with; chip-select idles released.                                       *)
(***************************************************************************)
\* the callers that share the handle: one sets the sleep bit, one the clock source
Callers == {"set_sleep", "set_clock_source"}

\* a caller that has not started its set_register
Idle == [pc |-> "idle", bits |-> 0, read |-> 0]

\* a register file: zero everywhere but at the registers of `given`
RegFile(given) ==
    [a \in RegisterAddrs |-> IF a \in DOMAIN given THEN given[a] ELSE 0]

ZeroFile == [a \in RegisterAddrs |-> 0]

InitWith(kinds, files) ==
    /\ bus_kind \in kinds
    /\ address = (IF bus_kind = "spi" THEN 0 ELSE 104)
    /\ overflow_checks \in BOOLEAN
    /\ regs \in files
    /\ cs = "high"
    /\ dlpf_enabled = FALSE
    /\ whoami = 104
    /\ halted = FALSE
    /\ last_dlpf = -1
    /\ last_field = [op \in DOMAIN ConfigFields |-> FieldValue(regs, op)]
    /\ exclusive = TRUE
    /\ callers = [c \in Callers |-> Idle]
    /\ call = NoCall

(***************************************************************************)
(* Spec: one handle, any sequence of filter and sample-rate calls, up to   *)
(* MaxFaults primitives of a call failing.                                 *)
(***************************************************************************)
\* filter settings around the two ends of 0 < value < 7
DlpfValues == {0, 1, 6, 7}

SampleRates == {500, 1000}

Init == InitWith({"spi", "i2c"}, {ZeroFile})

Next ==
    \/ \E v \in DlpfValues :
          \E F \in FaultPlans(set_dlpf(Machine, {}, v).m.wire) : Call_set_dlpf(v, F)
    \/ \E rate \in SampleRates :
          \E F \in FaultPlans(set_sample_rate(Machine, {}, rate).m.wire) :
             Call_set_sample_rate(rate, F)

Spec == Init /\ [][Next]_vars

(***************************************************************************)
(* SpecReset: any sequence of reset and set_sleep calls, with faults.      *)
(***************************************************************************)
InitReset == InitWith({"spi", "i2c"}, {ZeroFile})

NextReset ==
    \/ \E F \in FaultPlans(reset(Machine, {}).m.wire) : Call_reset(F)
    \/ \E e \in BOOLEAN :
          \E F \in FaultPlans(set_sleep(Machine, {}, e).m.wire) : Call_set_sleep(e, F)

SpecReset == InitReset /\ [][NextReset]_vars

(***************************************************************************)
(* SpecSetRegister: one set_register call on a register holding any of     *)
(* SampleBytes, for every field (offset, len) with len in 1..8 and         *)
(* offset + len <= 8, with faults.                                         *)
(***************************************************************************)
\* 0x00, 0x0F, 0x33, 0x5A, 0xA5, 0xCC, 0xF0, 0xFF
SampleBytes == {0, 15, 51, 90, 165, 204, 240, 255}

Fields == {f \in (0..7) \X (1..8) : f[1] + f[2] <= 8}

FieldRegs == {Register.Configuration, Register.UserControl}

FieldFiles ==
    {RegFile((Register.Configuration :> b) @@ (Register.UserControl :> 255 - b))
       : b \in SampleBytes}

InitSetRegister == InitWith({"spi", "i2c"}, FieldFiles)

NextSetRegister ==
    /\ call.op = "none"
    /\ \E reg \in FieldRegs, f \in Fields, bits \in SampleBytes :
          \E F \in FaultPlans(set_register(Machine, {}, reg, 0, 1, 0).m.wire) :
             Call_set_register(reg, f[1], f[2], bits, F)

SpecSetRegister == InitSetRegister /\ [][NextSetRegister]_vars

(***************************************************************************)
(* SpecBus: any sequence of direct RegAccess calls, every subset of the    *)
(* primitives of a call failing.                                           *)
(***************************************************************************)
BusRegs == {Register.Configuration, Register.FifoCountHigh}

BusValues == {0, 165}

InitBus == InitWith({"spi", "i2c"}, {ZeroFile})

NextBus ==
    \/ \E reg \in BusRegs, v \in BusValues :
          \E F \in AllFaultPlans(RegAccess_write(Machine, {}, reg, v).m.wire) :
             Call_write(reg, v, F)
    \/ \E reg \in BusRegs :
          \E F \in AllFaultPlans(RegAccess_read(Machine, {}, reg).m.wire) :
             Call_read(reg, F)
    \/ \E reg \in BusRegs, n \in 1..MaxBurst :
          \E F \in AllFaultPlans(RegAccess_reads(Machine, {}, reg, n).m.wire) :
             Call_reads(reg, n, F)

SpecBus == InitBus /\ [][NextBus]_vars

(***************************************************************************)
(* SpecRoundTrip: write(reg, v) for every register and every byte, then a  *)
(* read of that register or of WhoAmI; no primitive fails.                 *)
(***************************************************************************)
InitRoundTrip == InitWith({"spi", "i2c"}, {ZeroFile})

NextRoundTrip ==
    \/ /\ call.op = "none"
       /\ \E reg \in RegisterAddrs, v \in Byte : Call_write(reg, v, {})
    \/ /\ call.op = "write"
       /\ \E reg \in {call.args[1], Register.WhoAmI} : Call_read(reg, {})

SpecRoundTrip == InitRoundTrip /\ [][NextRoundTrip]_vars

(***************************************************************************)
(* SpecSampleRate: set_dlpf calls, then one set_sample_rate call for every *)
(* rate in 0..MaxRate; no primitive fails.                                 *)
(***************************************************************************)
InitSampleRate == InitWith({"spi", "i2c"}, {ZeroFile})

NextSampleRate ==
    \/ /\ call.op \in {"none", "set_dlpf"}
       /\ \E v \in {0, 3} : Call_set_dlpf(v, {})
    \/ /\ call.op \in {"none", "set_dlpf"}
       /\ \E rate \in 0..MaxRate : Call_set_sample_rate(rate, {})

SpecSampleRate == InitSampleRate /\ [][NextSampleRate]_vars

(***************************************************************************)
(* SpecRange: any sequence of range selections, with faults.               *)
(***************************************************************************)
InitRange == InitWith({"spi", "i2c"}, {ZeroFile})

NextRange ==
    \/ \E range \in {GyroRange[k] : k \in DOMAIN GyroRange} :
          \E F \in FaultPlans(set_gyro_range(Machine, {}, range).m.wire) :
             Call_set_gyro_range(range, F)
    \/ \E range \in {AccelerometerRange[k] : k \in DOMAIN AccelerometerRange} :
          \E F \in FaultPlans(set_accelerometer_range(Machine, {}, range).m.wire) :
             Call_set_accelerometer_range(range, F)

SpecRange == InitRange /\ [][NextRange]_vars

(***************************************************************************)
(* SpecVerify: any sequence of set_slave_address and verify calls against  *)
(* a device answering one of three identity bytes and a revision byte that *)
(* is 0, known (0x14, 0x5A) or unmapped (0x68); with faults.               *)
(***************************************************************************)
VerifyFiles ==
    {RegFile((Register.WhoAmI :> w) @@ (Register.ProductId :> p))
       : w \in {0, 104, 105}, p \in {0, 20, 90, 104}}

InitVerify == InitWith({"spi", "i2c"}, VerifyFiles)

NextVerify ==
    \/ \E a \in {104, 105} : Call_set_slave_address(a)
    \/ \E F \in FaultPlans(verify(Machine, {}).m.wire) : Call_verify(F)

SpecVerify == InitVerify /\ [][NextVerify]_vars

(***************************************************************************)
(* SpecFifo: get_fifo_counter against a device whose count registers hold  *)
(* any high byte and any low byte of SampleBytes or 1, 2; with faults.     *)
(***************************************************************************)
FifoFiles ==
    {RegFile((Register.FifoCountHigh :> h) @@ (Register.FifoCountLow :> l))
       : h \in Byte, l \in SampleBytes \cup {1, 2}}

InitFifo == InitWith({"spi", "i2c"}, FifoFiles)

NextFifo ==
    /\ call.op = "none"
    /\ \E F \in FaultPlans(get_fifo_counter(Machine, {}).m.wire) :
          Call_get_fifo_counter(F)

SpecFifo == InitFifo /\ [][NextFifo]_vars

(***************************************************************************)
(* SpecPropagate: any sequence of the Device Control operations made of    *)
(* several bus transactions, against a device that answers the expected    *)
(* identity and a known revision; with faults.                             *)
(***************************************************************************)
PropagateFiles == {RegFile((Register.WhoAmI :> 104) @@ (Register.ProductId :> 20))}

InitPropagate == InitWith({"spi", "i2c"}, PropagateFiles)

NextPropagate ==
    \/ \E bits \in {0, 5} :
          \E F \in FaultPlans(set_register(Machine, {}, Register.Configuration,
                                           0, 3, bits).m.wire) :
             Call_set_register(Register.Configuration, 0, 3, bits, F)
    \/ \E F \in FaultPlans(verify(Machine, {}).m.wire) : Call_verify(F)
    \/ \E F \in FaultPlans(reset(Machine, {}).m.wire) : Call_reset(F)
    \/ \E F \in FaultPlans(enable_fifo_buffer(Machine, {}).m.wire) :
          Call_enable_fifo_buffer(F)
    \/ \E F \in FaultPlans(get_fifo_counter(Machine, {}).m.wire) :
          Call_get_fifo_counter(F)

SpecPropagate == InitPropagate /\ [][NextPropagate]_vars

(***************************************************************************)
(* SpecCallers: two callers, one set_register each on its own field of     *)
(* PowerManagement1, which holds any of SampleBytes; the handle is owned    *)
(* exclusively or shared without serialisation; no primitive fails.        *)
(***************************************************************************)
CallerFiles == {RegFile(Register.PowerManagement1 :> b) : b \in SampleBytes}

CallerBits ==
    [set_sleep |-> {0, 1},
     set_clock_source |-> {ClockSource.Internal, ClockSource.PLLGyroZ, ClockSource.Stop}]

InitCallers ==
    /\ bus_kind \in {"spi", "i2c"}
    /\ address = (IF bus_kind = "spi" THEN 0 ELSE 104)
    /\ overflow_checks \in BOOLEAN
    /\ regs \in CallerFiles
    /\ cs = "high"
    /\ dlpf_enabled = FALSE
    /\ whoami = 104
    /\ halted = FALSE
    /\ last_dlpf = -1
    /\ last_field = [op \in DOMAIN ConfigFields |-> FieldValue(regs, op)]
    /\ exclusive \in BOOLEAN
    /\ callers = [c \in Callers |-> Idle]
    /\ call = NoCall

NextCallers ==
    \/ \E c \in Callers : \E bits \in CallerBits[c] : Caller_read(c, bits)
    \/ \E c \in Callers : Caller_write(c)

SpecCallers == InitCallers /\ [][NextCallers]_vars

(***************************************************************************)
(* SpecFifoEnable: one enable_fifo call for every value of the eight       *)
(* flags, with faults.                                                     *)
(***************************************************************************)
InitFifoEnable == InitWith({"spi", "i2c"}, {ZeroFile})

NextFifoEnable ==
    /\ call.op = "none"
    /\ \E fe \in FifoEnable :
          \E F \in FaultPlans(enable_fifo(Machine, {}, fe).m.wire) :
             Call_enable_fifo(fe, F)

SpecFifoEnable == InitFifoEnable /\ [][NextFifoEnable]_vars

(***************************************************************************)
(* SpecFields: any sequence of the operations that edit a configuration    *)
(* field, against a device whose registers start all-zeros or all-ones; no *)
(* primitive fails.                                                        *)
(***************************************************************************)
OnesFile == [a \in RegisterAddrs |-> 255]

\* clock sources: with the 0 or 7 the field starts with, the two ends of the
\* 3-bit field and a value inside it
FieldClockSources == {ClockSource.PLLExternal19_2MHz, ClockSource.Stop}

\* filter settings, likewise
FieldDlpfValues == {0, 2}

InitFields == InitWith({"spi", "i2c"}, {ZeroFile, OnesFile})

NextFields ==
    \/ \E e \in BOOLEAN : Call_set_sleep(e, {})
    \/ \E source \in FieldClockSources : Call_set_clock_source(source, {})
    \/ \E v \in FieldDlpfValues : Call_set_dlpf(v, {})
    \/ \E d \in BOOLEAN : Call_set_i2c_disable(d, {})
    \/ Call_enable_fifo_buffer({})
    \/ \E e \in BOOLEAN : Call_set_interrupt_enable(Interrupt.DataReady, e, {})
    \/ \E e \in BOOLEAN : Call_set_int_pin_config(IntPinConfig.IntReadClear, e, {})

SpecFields == InitFields /\ [][NextFields]_vars

(***************************************************************************)
(* SpecSensor: any sequence of sensor reads against a device each of whose *)
(* registers holds a byte that tells it from every other register; with    *)
(* faults.                                                                 *)
(***************************************************************************)
\* every register holds its own address, or the complement of it
SensorFiles == {[a \in RegisterAddrs |-> a], [a \in RegisterAddrs |-> 255 - a]}

InitSensor == InitWith({"spi", "i2c"}, SensorFiles)

NextSensor ==
    \/ \E F \in FaultPlans(read_acceleration(Machine, {}).m.wire) :
          Call_read_acceleration(F)
    \/ \E F \in FaultPlans(read_gyro(Machine, {}).m.wire) : Call_read_gyro(F)
    \/ \E F \in FaultPlans(read_temperature(Machine, {}).m.wire) :
          Call_read_temperature(F)
    \/ \E F \in FaultPlans(read_all(Machine, {}).m.wire) : Call_read_all(F)

SpecSensor == InitSensor /\ [][NextSensor]_vars

(***************************************************************************)
(* SpecAddress: one write, read or reads call on any register, the I2C     *)
(* transport constructed with either of the chip's two device addresses;   *)
(* every subset of the primitives of the call failing.                     *)
(***************************************************************************)
\* the device addresses I2cBus::i2c is given: AD0 low, AD0 high
DeviceAddresses == {104, 105}

InitAddress ==
    /\ bus_kind \in {"spi", "i2c"}
    /\ address \in (IF bus_kind = "spi" THEN {0} ELSE DeviceAddresses)
    /\ overflow_checks \in BOOLEAN
    /\ regs = ZeroFile
    /\ cs = "high"
    /\ dlpf_enabled = FALSE
    /\ whoami = 104
    /\ halted = FALSE
    /\ last_dlpf = -1
    /\ last_field = [op \in DOMAIN ConfigFields |-> FieldValue(regs, op)]
    /\ exclusive = TRUE
    /\ callers = [c \in Callers |-> Idle]
    /\ call = NoCall

NextAddress ==
    /\ call.op = "none"
    /\ \/ \E reg \in RegisterAddrs, v \in BusValues :
             \E F \in AllFaultPlans(RegAccess_write(Machine, {}, reg, v).m.wire) :
                Call_write(reg, v, F)
       \/ \E reg \in RegisterAddrs :
             \E F \in AllFaultPlans(RegAccess_read(Machine, {}, reg).m.wire) :
                Call_read(reg, F)
       \/ \E reg \in RegisterAddrs, n \in 1..MaxBurst :
             \E F \in AllFaultPlans(RegAccess_reads(Machine, {}, reg, n).m.wire) :
                Call_reads(reg, n, F)

SpecAddress == InitAddress /\ [][NextAddress]_vars

(***************************************************************************)
(* SpecFifoBuffer: any sequence of enable_fifo_buffer calls against a      *)
(* device whose UserControl register holds any byte; with faults.          *)
(***************************************************************************)
FifoBufferFiles == {RegFile(Register.UserControl :> b) : b \in Byte}

InitFifoBuffer == InitWith({"spi", "i2c"}, FifoBufferFiles)

NextFifoBuffer ==
    \E F \in FaultPlans(enable_fifo_buffer(Machine, {}).m.wire) :
       Call_enable_fifo_buffer(F)

SpecFifoBuffer == InitFifoBuffer /\ [][NextFifoBuffer]_vars

(***************************************************************************)
(* Properties.                                                             *)
(***************************************************************************)
Count(seq, P(_)) == Cardinality({i \in 1..Len(seq) : P(seq[i])})

IsPrefix(a, b) == Len(a) <= Len(b) /\ \A i \in 1..Len(a) : a[i] = b[i]

\* no primitive of the last call failed
NoFault == \A i \in 1..Len(call.wire) : call.wire[i].ok

\* the register address byte a wire event carries, -1 if it carries none
RegByte(e) ==
    IF e.op = "spi_write" THEN e.data[1]
    ELSE IF e.op \in {"i2c_write", "i2c_write_read"} THEN e.data[2]
    ELSE -1

\* `written` is `initial` with the len bits from offset on replaced by the low
\* len bits of `bits`
FieldEdited(initial, written, offset, len, bits) ==
    \A i \in 0..7 :
       Bit(written, i) = IF offset <= i /\ i < offset + len
                         THEN Bit(bits, i - offset)
                         ELSE Bit(initial, i)

\* C1: for every field (offset, width) with width in 1..8 and offset + width <= 8,
\* every initial byte and every target bits, a set_register call whose transport
\* does not fail writes back the byte it read with the bits of the field replaced
\* by target & ((1 << width) - 1) and every other bit kept; width 8 included.
C1_FieldEdit ==
    (call.op = "set_register" /\ NoFault) =>
        /\ Len(call.txn) = 2
        /\ call.txn[2].kind = "write"
        /\ FieldEdited(call.txn[1].value, call.txn[2].value,
                       call.args[2], call.args[3], call.args[4])

\* C2: verify returns true only if the byte read from WhoAmI equals the expected
\* identity and the byte read from ProductId maps, through the ProductId lookup,
\* to a known product id.
C2_IdentityCheck ==
    (call.op = "verify" /\ call.tag = "Ok" /\ call.val = 1) =>
        /\ Len(call.txn) = 2
        /\ call.txn[1].value = whoami
        /\ ProductId_from(call.txn[2].value) # ProductId.Unknown

\* the chip-select line did what the last call asked of it
PinWorked == \A i \in 1..Len(call.wire) :
                call.wire[i].op \in {"set_low", "set_high"} => call.wire[i].ok

\* C3: on the SPI transport every write, read or reads call, whatever the outcome
\* of its send and exchange steps, asserts chip-select exactly once, then releases
\* it exactly once, and delays exactly twice: once after the assert and once
\* after the release.  (Stated for the calls whose chip-select line works.)
C3_Framing ==
    (bus_kind = "spi" /\ call.op \in {"write", "read", "reads"} /\ PinWorked) =>
        /\ Len(call.wire) >= 4
        /\ Count(call.wire, LAMBDA e : e.op = "set_low") = 1
        /\ Count(call.wire, LAMBDA e : e.op = "set_high") = 1
        /\ Count(call.wire, LAMBDA e : e.op = "delay_us") = 2
        /\ call.wire[1].op = "set_low"
        /\ call.wire[2].op = "delay_us"
        /\ call.wire[Len(call.wire) - 1].op = "set_high"
        /\ call.wire[Len(call.wire)].op = "delay_us"

\* the one write a range selection issues goes to `reg` and carries `value`
RangeWrite(reg, value) ==
    /\ Len(call.txn) = 1
    /\ call.txn[1].kind = "write"
    /\ call.txn[1].reg = reg
    /\ call.txn[1].value = value

\* C4 as stated: set_gyro_range and set_accelerometer_range write to GyroConfig
\* and AccelerometerConfig a byte whose bits 7..6 hold the range selector.
C4_TopTwoBits ==
    /\ call.op = "set_gyro_range" =>
          /\ Len(call.txn) = 1 /\ call.txn[1].reg = 27
          /\ call.txn[1].value \div 64 = call.args[1]
    /\ call.op = "set_accelerometer_range" =>
          /\ Len(call.txn) = 1 /\ call.txn[1].reg = 28
          /\ call.txn[1].value \div 64 = call.args[1]

\* C4 amended: set_gyro_range and set_accelerometer_range each issue one write, to
\* GyroConfig (0x1B) and AccelerometerConfig (0x1C), of a byte whose bits 4..3
\* hold the range selector 0..3 and whose other bits are 0.
C4_Bits4To3 ==
    /\ call.op = "set_gyro_range" =>
          /\ RangeWrite(27, 8 * call.args[1])
          /\ (call.txn[1].value \div 8) % 4 = call.args[1]
    /\ call.op = "set_accelerometer_range" =>
          /\ RangeWrite(28, 8 * call.args[1])
          /\ (call.txn[1].value \div 8) % 4 = call.args[1]

C4_Witness ==
    /\ call.op = "set_gyro_range" /\ call.args = <<3>> /\ call.tag = "Ok"
    /\ regs[Register.GyroConfig] = 24

\* the one write set_sample_rate issues, of `value` to SampleRateDivider (0x19)
DividerWritten(value) == call.txn = <<Txn("write", 25, value, TRUE)>>

\* C5 as stated: set_sample_rate(rate) issues one write, to SampleRateDivider, of
\* ((base / rate) - 1) mod 256, base 1000 with the filter enabled and 8000
\* without, for every rate in 1..base; for rate = 0 or rate > base it writes no
\* divider.
C5_NoDividerOutOfRange ==
    call.op = "set_sample_rate" =>
        LET rate == call.args[1]
            base == IF dlpf_enabled THEN 1000 ELSE 8000
        IN /\ rate \in 1..base =>
                call.tag = "Ok" /\ DividerWritten(((base \div rate) - 1) % 256)
           /\ (rate = 0 \/ rate > base) => call.txn = <<>>

\* C5 amended: as stated for every rate in 1..base; for rate = 0 the call panics
\* and writes nothing; for rate > base it panics and writes nothing in a build
\* with overflow checks, and in a build without writes 255 (0 - 1 wrapped to
\* 65535, truncated to 8 bits).
C5_DividerOrWrap ==
    call.op = "set_sample_rate" =>
        LET rate == call.args[1]
            base == IF dlpf_enabled THEN 1000 ELSE 8000
        IN /\ rate \in 1..base =>
                call.tag = "Ok" /\ DividerWritten(((base \div rate) - 1) % 256)
           /\ rate = 0 => call.tag = "Panic" /\ call.txn = <<>>
           /\ rate > base =>
                IF overflow_checks THEN call.tag = "Panic" /\ call.txn = <<>>
                ELSE call.tag = "Ok" /\ DividerWritten(255)

C5_Witness ==
    /\ call.op = "set_sample_rate" /\ call.args = <<500>> /\ call.tag = "Ok"
    /\ dlpf_enabled /\ regs[Register.SampleRateDivider] = 1

\* the base the value of a set_dlpf call decides, -1 standing for no call
BaseAfter(value) == IF 0 < value /\ value < 7 THEN 1000 ELSE 8000

\* C6: after any sequence of set_dlpf and set_sample_rate calls, the divider a
\* set_sample_rate call sends is (base / rate) - 1 with the base decided by the
\* value of the most recent set_dlpf call before it (8000 if there was none), and
\* no set_dlpf call sends anything to SampleRateDivider.
C6_BaseFollowsLastDlpf ==
    /\ call.op = "set_sample_rate" =>
          /\ Len(call.txn) = 1
          /\ call.txn[1].kind = "write"
          /\ call.txn[1].reg = 25
          /\ call.txn[1].value = ((BaseAfter(last_dlpf) \div call.args[1]) - 1) % 256
    /\ call.op = "set_dlpf" =>
          /\ \A i \in 1..Len(call.txn) : call.txn[i].reg # 25
          /\ \A i \in 1..Len(call.wire) : RegByte(call.wire[i]) % 128 # 25

C6_Witness ==
    /\ call.op = "set_sample_rate" /\ call.args = <<1000>> /\ call.tag = "Ok"
    /\ last_dlpf = 0 /\ regs[Register.SampleRateDivider] = 7
    /\ regs[Register.Configuration] = 6

\* what reset sends and waits for, in order: the sends and the millisecond delays
\* of a wire
ResetTrace(wire) ==
    LET kept == SelectSeq(wire, LAMBDA e :
                    e.op \in {"spi_write", "i2c_write", "delay_ms"})
    IN [i \in 1..Len(kept) |->
          IF kept[i].op = "delay_ms"
          THEN [op |-> "delay_ms", a |-> kept[i].data[1], b |-> 0]
          ELSE [op |-> "write",
                a |-> kept[i].data[Len(kept[i].data) - 1],
                b |-> kept[i].data[Len(kept[i].data)]]]

ResetSequence ==
    <<[op |-> "write", a |-> 107, b |-> 128], [op |-> "delay_ms", a |-> 150, b |-> 0],
      [op |-> "write", a |-> 104, b |-> 7], [op |-> "delay_ms", a |-> 150, b |-> 0]>>

\* C7: what a reset call sends and waits for is, in this order, a write of 0x80 to
\* PowerManagement1 (0x6B), a 150 ms delay, one write of 0x07 to SignalPathReset
\* (0x68), a 150 ms delay, or a beginning of that sequence when a write fails; its
\* transactions are these writes only; it returns Ok only after the whole
\* sequence.
C7_ResetSequence ==
    call.op = "reset" =>
        /\ IsPrefix(ResetTrace(call.wire), ResetSequence)
        /\ Len(call.txn) <= 2
        /\ \A i \in 1..Len(call.txn) : call.txn[i].kind = "write"
        /\ call.tag = "Ok" => ResetTrace(call.wire) = ResetSequence

C7_Witness ==
    /\ call.op = "reset" /\ call.tag = "Ok"
    /\ Len(ResetTrace(call.wire)) = 4
    /\ regs[Register.PowerManagement1] = 128 /\ regs[Register.SignalPathReset] = 7

\* C8: every set_register call issues exactly one read and at most one write, both
\* on the register it was given, the read first; the write only after the read
\* succeeded; no exchange on the wire happens twice.
C8_OneReadOneWrite ==
    call.op = "set_register" =>
        /\ Len(call.txn) \in {1, 2}
        /\ call.txn[1].kind = "read" /\ call.txn[1].reg = call.args[1]
        /\ Len(call.txn) = 2 =>
              /\ call.txn[1].ok
              /\ call.txn[2].kind = "write" /\ call.txn[2].reg = call.args[1]
        /\ Count(call.wire, LAMBDA e : e.op \in {"spi_transfer", "i2c_write_read"}) <= 1
        /\ Count(call.wire, LAMBDA e : RegByte(e) \in 0..127) <= 1

C8_Witness ==
    /\ call.op = "set_register" /\ call.tag = "Ok" /\ Len(call.txn) = 2
    /\ call.args = <<Register.UserControl, 2, 3, 255>>
    /\ regs[Register.UserControl] = 28

\* C9: on either transport, against a device that stores the value byte of a write
\* under the register address and returns the stored byte on a read of that
\* register, a successful write(reg, v) followed by a successful read(reg)
\* returns v, for every register and every v in 0..255.
C9_RoundTrip ==
    [][(/\ call.op = "write" /\ call.tag = "Ok"
        /\ call'.op = "read" /\ call'.tag = "Ok"
        /\ call'.args[1] = call.args[1])
       => call'.val = call.args[2]]_vars

C9_Witness ==
    /\ call.op = "read" /\ call.tag = "Ok" /\ bus_kind = "spi"
    /\ call.args = <<Register.GyroZLow>> /\ call.val = 165

\* C10: get_fifo_counter issues reads only, FifoCountHigh (0x72) first and
\* FifoCountLow (0x73) second, and when it returns Ok it has issued both and
\* returns high * 256 + low of the two bytes read.
C10_FifoCounter ==
    call.op = "get_fifo_counter" =>
        /\ \A i \in 1..Len(call.txn) : call.txn[i].kind = "read"
        /\ IsPrefix([i \in 1..Len(call.txn) |-> call.txn[i].reg], <<114, 115>>)
        /\ call.tag = "Ok" =>
              /\ Len(call.txn) = 2
              /\ call.txn[1].value = regs[Register.FifoCountHigh]
              /\ call.txn[2].value = regs[Register.FifoCountLow]
              /\ call.val = 256 * call.txn[1].value + call.txn[2].value

C10_Witness ==
    /\ call.op = "get_fifo_counter" /\ call.tag = "Ok" /\ call.val = 258
    /\ regs[Register.FifoCountHigh] = 1 /\ regs[Register.FifoCountLow] = 2

\* the SpiError variant a failed primitive of the SPI transport is reported as
PhaseError(e) ==
    CASE e.op = "spi_write" -> "WriteError"
      [] e.op = "spi_transfer" -> "TransferError"
      [] e.op \in {"set_low", "set_high"} -> "OutputPinError"
      [] OTHER -> "I2cError"

\* the primitives of the last call that failed, in wire order
Failed == {i \in 1..Len(call.wire) : ~call.wire[i].ok}

\* C11: on the SPI transport a write, read or reads call returns Err exactly when
\* one of its primitives failed, and the error names the phase that failed first:
\* WriteError for the send, TransferError for the exchange, OutputPinError for a
\* chip-select operation; in particular a write whose send failed returns
\* WriteError whatever the chip-select release after it does.
C11_ErrorPhase ==
    (bus_kind = "spi" /\ call.op \in {"write", "read", "reads"}) =>
        /\ (call.tag = "Err") = (Failed # {})
        /\ Failed # {} =>
              call.err = PhaseError(call.wire[CHOOSE i \in Failed :
                                                 \A j \in Failed : i <= j])
        /\ (call.op = "write" /\ \E i \in Failed : call.wire[i].op = "spi_write")
              => call.err = "WriteError"

\* C11 without the case it fails in: when no chip-select operation of the call
\* failed after a failed send, the error names the phase that failed first
C11_ErrorPhaseSingle ==
    (bus_kind = "spi" /\ call.op \in {"write", "read", "reads"}
       /\ ~(\E i, j \in Failed : i < j)) =>
        /\ (call.tag = "Err") = (Failed # {})
        /\ Failed # {} =>
              call.err = PhaseError(call.wire[CHOOSE i \in Failed : TRUE])

\* the operations of lib.rs made of several bus transactions
MultiTxnOps == {"set_register", "verify", "reset", "enable_fifo_buffer", "get_fifo_counter"}

\* the primitives that put bytes on the bus, and reset's settle delay
Traffic == {"spi_write", "spi_transfer", "i2c_write", "i2c_write_read", "delay_ms"}

\* C12: in set_register, verify, reset, enable_fifo_buffer and get_fifo_counter,
\* only the last transaction of a call can have failed; when it has, the call
\* returns Err with the error of a primitive that failed in it, nothing is sent
\* or exchanged and no millisecond delay is made after the failed primitive, and
\* no call issues the same transaction (same kind, same register) twice.
C12_Propagation ==
    call.op \in MultiTxnOps =>
        /\ \A i \in 1..Len(call.txn) : ~call.txn[i].ok => i = Len(call.txn)
        /\ (\E i \in 1..Len(call.txn) : ~call.txn[i].ok) =>
              /\ call.tag = "Err"
              /\ \E i \in Failed :
                    call.err = (IF bus_kind = "spi" THEN PhaseError(call.wire[i])
                                ELSE "I2cError")
        /\ \A i \in Failed : \A j \in (i + 1)..Len(call.wire) :
              call.wire[j].op \notin Traffic
        /\ (Failed # {}) = (call.tag = "Err")
        /\ \A i, j \in 1..Len(call.txn) :
              (call.txn[i].kind = call.txn[j].kind /\ call.txn[i].reg = call.txn[j].reg)
                 => i = j

C12_Witness ==
    /\ call.op = "reset" /\ call.tag = "Err" /\ bus_kind = "spi"
    /\ Len(call.txn) = 2 /\ call.txn[1].ok /\ ~call.txn[2].ok
    /\ Len(ResetTrace(call.wire)) = 3
    /\ regs[Register.PowerManagement1] = 128 /\ regs[Register.SignalPathReset] = 0

\* every caller has finished its set_register
AllDone == \A c \in Callers : callers[c].pc = "done"

\* the field of caller c does not hold the value c set
LostUpdate(c) == FieldValue(regs, c) # callers[c].bits

\* C13: the write of a set_register puts back the byte its caller read, with the
\* caller's field replaced, whatever was written to the register since that read;
\* and when each set_register runs to completion before the next starts, after
\* both callers have finished each field holds the value its caller set.
C13_NotAtomic ==
    /\ call.op = "set_register.write" =>
          LET c == call.args[1]
          IN FieldEdited(callers[c].read, regs[ConfigFields[c].reg],
                         ConfigFields[c].offset, ConfigFields[c].len, callers[c].bits)
    /\ (exclusive /\ AllDone) => \A c \in Callers : ~LostUpdate(c)

\* the handle is shared without serialisation, both callers read before either
\* wrote, and the sleep bit set by the first writer is gone
C13_Witness ==
    /\ ~exclusive /\ AllDone
    /\ call.op = "set_register.write" /\ call.args[1] = "set_clock_source"
    /\ callers["set_sleep"].read = callers["set_clock_source"].read
    /\ LostUpdate("set_sleep") /\ ~LostUpdate("set_clock_source")

\* the primitives of the last call that read from the device
ReadsOnWire ==
    {i \in 1..Len(call.wire) :
        \/ call.wire[i].op \in {"spi_transfer", "i2c_write_read"}
        \/ RegByte(call.wire[i]) >= 128}

\* C14: enable_fifo issues exactly one transaction, a write to FifoEnable (0x23),
\* and reads nothing; the byte written is 128 * temperature + 64 * x_g_force +
\* 32 * y_g_force + 16 * z_g_force + 8 * acceleration + 4 * slave2 + 2 * slave1 +
\* slave0 (bit 7 .. bit 0), for all 256 values of the flags.
C14_FifoEnablePacking ==
    call.op = "enable_fifo" =>
        LET fe == call.args[1]
            n(b) == IF b THEN 1 ELSE 0
        IN /\ Len(call.txn) = 1
           /\ call.txn[1].kind = "write"
           /\ call.txn[1].reg = 35
           /\ call.txn[1].value =
                 128 * n(fe.temperature) + 64 * n(fe.x_g_force) + 32 * n(fe.y_g_force)
                 + 16 * n(fe.z_g_force) + 8 * n(fe.acceleration) + 4 * n(fe.slave2)
                 + 2 * n(fe.slave1) + n(fe.slave0)
           /\ ReadsOnWire = {}
           /\ call.tag = "Ok" => regs[Register.FifoEnable] = call.txn[1].value

\* temperature and slave1 only: 0x82
C14_Witness ==
    /\ call.op = "enable_fifo" /\ call.tag = "Ok"
    /\ call.args[1].temperature /\ call.args[1].slave1
    /\ ~call.args[1].x_g_force /\ ~call.args[1].y_g_force /\ ~call.args[1].z_g_force
    /\ ~call.args[1].acceleration /\ ~call.args[1].slave2 /\ ~call.args[1].slave0
    /\ regs[Register.FifoEnable] = 130

\* C15: after any sequence of set_sleep, set_clock_source, set_dlpf,
\* set_i2c_disable, enable_fifo_buffer, set_interrupt_enable and
\* set_int_pin_config calls whose transport does not fail, every configuration
\* field holds the value of the most recent call that set it (the value the
\* device started with if there was none), every call returned Ok, and a call
\* changes no bit of any register outside its own field.
C15_FieldsKeepLastValue ==
    /\ \A op \in DOMAIN ConfigFields : FieldValue(regs, op) = last_field[op]
    /\ call.op \in DOMAIN ConfigFields =>
          /\ call.tag = "Ok"
          /\ FieldValue(regs, call.op) = FieldGiven(call.op, call.args)
          /\ Len(call.txn) = 2
          /\ \A i \in 0..7 :
                ~(ConfigFields[call.op].offset <= i
                    /\ i < ConfigFields[call.op].offset + ConfigFields[call.op].len)
                => Bit(call.txn[2].value, i) = Bit(call.txn[1].value, i)
          /\ \A j \in 1..Len(call.txn) : call.txn[j].reg = ConfigFields[call.op].reg

\* sleep set, clock source Stop, and a later set_i2c_disable and
\* enable_fifo_buffer on UserControl: all four fields hold
C15_Witness ==
    /\ call.op = "enable_fifo_buffer" /\ call.tag = "Ok"
    /\ last_field["set_sleep"] = 1 /\ last_field["set_clock_source"] = 7
    /\ last_field["set_i2c_disable"] = 1 /\ last_field["set_dlpf"] = 2
    /\ regs[Register.PowerManagement1] = 71 /\ regs[Register.UserControl] = 68
    /\ regs[Register.Configuration] = 2

\* C16: on the SPI transport, after any sequence of write, read and reads calls,
\* whenever the chip-select operations of the last call all succeeded,
\* chip-select is released once the call has returned, whether or not its send
\* or its exchange failed.
C16_ChipSelectReleased ==
    (bus_kind = "spi" /\ PinWorked) => cs = "high"

\* the bytes the registers first..last of the device hold
Block(first, last) == [i \in 1..(last - first + 1) |-> regs[first + i - 1]]

\* C17: read_acceleration, read_gyro, read_temperature and read_all each issue
\* one burst read and no other transaction, and when the read succeeds the bytes
\* handed to decoding are those of the registers 0x3B..0x40 for acceleration,
\* 0x41..0x42 (TemperatureHigh, TemperatureLow) for temperature, 0x43..0x48 for
\* gyro, and for read_all the three blocks in the order acceleration,
\* temperature, gyro.
C17_SensorBlocks ==
    call.op \in {"read_acceleration", "read_gyro", "read_temperature", "read_all"} =>
        /\ Len(call.txn) = 1
        /\ call.txn[1].kind = "reads"
        /\ call.tag = "Ok" =>
              call.data =
                 CASE call.op = "read_acceleration" -> <<Block(59, 64)>>
                   [] call.op = "read_temperature" -> <<Block(65, 66)>>
                   [] call.op = "read_gyro" -> <<Block(67, 72)>>
                   [] call.op = "read_all" ->
                        <<Block(59, 64), Block(65, 66), Block(67, 72)>>

\* C17 for the three reads other than read_temperature
C17_OtherBlocks ==
    call.op \in {"read_acceleration", "read_gyro", "read_all"} =>
        /\ Len(call.txn) = 1
        /\ call.txn[1].kind = "reads"
        /\ call.tag = "Ok" =>
              call.data =
                 CASE call.op = "read_acceleration" -> <<Block(59, 64)>>
                   [] call.op = "read_gyro" -> <<Block(67, 72)>>
                   [] call.op = "read_all" ->
                        <<Block(59, 64), Block(65, 66), Block(67, 72)>>

\* C18: a set_dlpf call that returns an error leaves dlpf_enabled as it was before
\* the call.
C18_FailedDlpfKeepsState ==
    [][(call'.op = "set_dlpf" /\ call'.tag = "Err")
          => dlpf_enabled' = dlpf_enabled]_vars

\* C19: every register address is below 0x80; in every write, read and reads call,
\* on both transports, each address byte put on the bus is the register's address
\* with bit 7 clear for a write and with bit 7 set for a read or reads; a call
\* that returns Ok has put exactly one address byte on the bus; and every
\* exchange on the I2C transport is with the device address the transport was
\* constructed with.
C19_AddressByte ==
    /\ \A a \in RegisterAddrs : a \in 0..127
    /\ call.op \in {"write", "read", "reads"} =>
          /\ \A i \in 1..Len(call.wire) :
                LET e == call.wire[i]
                IN /\ RegByte(e) # -1 =>
                         /\ RegByte(e) % 128 = call.args[1]
                         /\ Bit(RegByte(e), 7) = (IF call.op = "write" THEN 0 ELSE 1)
                   /\ e.op \in {"i2c_write", "i2c_write_read"} => e.data[1] = address
          /\ call.tag = "Ok" =>
                Count(call.wire, LAMBDA e : RegByte(e) # -1) = 1

\* a write on the I2C transport constructed with the alternate address 0x69
C19_Witness ==
    /\ call.op = "write" /\ call.tag = "Ok" /\ bus_kind = "i2c" /\ address = 105
    /\ call.args = <<Register.WhoAmI, 165>>
    /\ call.wire = <<Ev("i2c_write", <<105, 117, 165>>, TRUE)>>

\* C20: enable_fifo_buffer reads UserControl (0x6A) once and, when the read
\* succeeded, writes to UserControl once the byte it read with bit 6 set and the
\* other seven bits as read; after a call that returned Ok, a second call whose
\* transport works leaves the register file as the first left it.
C20_FifoBufferBit ==
    call.op = "enable_fifo_buffer" =>
        /\ Len(call.txn) \in {1, 2}
        /\ call.txn[1].kind = "read" /\ call.txn[1].reg = 106
        /\ call.txn[1].ok = (Len(call.txn) = 2)
        /\ Len(call.txn) = 2 =>
              /\ call.txn[2].kind = "write" /\ call.txn[2].reg = 106
              /\ \A i \in 0..7 :
                    Bit(call.txn[2].value, i) =
                       IF i = 6 THEN 1 ELSE Bit(call.txn[1].value, i)
        /\ call.tag = "Ok" =>
              /\ Len(call.txn) = 2
              /\ regs[Register.UserControl] = call.txn[2].value
              /\ enable_fifo_buffer(Machine, {}).tag = "Ok"
              /\ enable_fifo_buffer(Machine, {}).m.regs = regs

\* a second successful call on a register that started as 0xA5: it read 0xE5
\* and wrote 0xE5
C20_Witness ==
    /\ call.op = "enable_fifo_buffer" /\ call.tag = "Ok"
    /\ call.txn = <<Txn("read", 106, 229, TRUE), Txn("write", 106, 229, TRUE)>>
    /\ regs[Register.UserControl] = 229 /\ last_field["set_i2c_disable"] = 1

====
